---- MODULE Spec2Model ----
(***************************************************************************)
(* Model of pacdef_core: the rustup backend (backend/actual/rustup.rs) and *)
(* the sync / clean / collect driver (core.rs).                            *)
(*                                                                         *)
(* Text is modelled as a sequence of tokens: a token is either a word      *)
(* (free of separators) or one of the separator characters "-" and "/".    *)
(* "stable/rust-std" is <<"stable", "/", "rust", "-", "std">>, the empty   *)
(* string is <<>>.  split, splitn and join are computed on that form.      *)
(* An Option is a sequence of length 0 (None) or 1 (Some).                 *)
(***************************************************************************)
EXTENDS Integers, Sequences, FiniteSets, TLC

VARIABLES
    \* ---- Rustup::get_all_installed_packages (rustup.rs 29-50, 113-154)
    qpc,             \* "start" | "components" | "done"
    toolchains_vec,  \* Vec<String> returned by run_toolchain_command
    qi,              \* index of the toolchain run_component_command is at
    val,             \* Vec<String> built by run_component_command
    seen,            \* lines read so far: <<toolchain, line>> (history)
    tcLines,         \* lines of the `toolchain list` output (history)
    qres             \* result of the query

qvars == <<qpc, toolchains_vec, qi, val, seen, tcLines, qres>>

VARIABLES
    \* ---- the machine the rustup binary manages
    sysToolchains,   \* ids given to a successful `toolchain install`
    sysComponents,   \* <<toolchain id, component id>> of a successful `component add`
    hostSuffix,      \* what the tool appends to an id when it lists it
    \* ---- Rustup::install_packages / make_dependency (rustup.rs 57-103)
    op,              \* the Backend method called: "install" | "make_dependency"
    declared,        \* self.packages after load
    batch,           \* the `packages` slice
    pass,            \* 1: the loop of lines 68-82, 2: the loop of lines 83-101
    ii,              \* position in the current loop
    cmds,            \* the commands started so far (history)
    ires,            \* `result`; the returned value once ipc = "done"
    ipc              \* "run" | "done"

svars == <<sysToolchains, sysComponents, hostSuffix>>
ivars == <<op, declared, batch, pass, ii, cmds, ires, ipc>>

VARIABLES
    \* ---- Pacdef::run_action_from_arg: sync, clean, unmanaged (core.rs)
    action,          \* the subcommand
    rust_backtrace,  \* get_single_var("RUST_BACKTRACE"): an Option
    config,          \* self.config: aur_helper, aur_rm_args
    config0,         \* the configuration as loaded (history)
    bidx,            \* position of the loop over Backends::iter()
    outcomes,        \* what each evaluated backend's diff query gave (history)
    todo,            \* the ToDoPerBackend being built
    stderr,          \* lines printed by show_error
    events,          \* what the run printed, asked and did, in order
    rres,            \* the Result<()> of the run
    rpc              \* "collect" | "collected" | "confirm" | "done" | "aborted"

rvars == <<action, rust_backtrace, config, config0, bidx, outcomes, todo, stderr,
           events, rres, rpc>>
vars == <<qvars, svars, ivars, rvars>>

----------------------------------------------------------------------------
(* Bounds *)

\* lines in one output of the tool
MaxLines == 2
\* packages in one install batch
MaxBatch == 3

----------------------------------------------------------------------------
(* Text *)

Range(s) == {s[i] : i \in 1..Len(s)}

\* index of the first occurrence of the separator d in s, 0 if none
IndexOf(s, d) ==
    IF \E i \in 1..Len(s) : s[i] = d
    THEN CHOOSE i \in 1..Len(s) : s[i] = d /\ \A j \in 1..(i-1) : s[j] # d
    ELSE 0

\* str::splitn(n, d): at most n pieces, the last one holds the remainder
RECURSIVE SplitN(_, _, _)
SplitN(s, d, n) ==
    IF n = 0 THEN <<>>
    ELSE IF n = 1 \/ IndexOf(s, d) = 0 THEN <<s>>
    ELSE <<SubSeq(s, 1, IndexOf(s, d) - 1)>>
            \o SplitN(SubSeq(s, IndexOf(s, d) + 1, Len(s)), d, n - 1)

\* str::split(d)
Split(s, d) == SplitN(s, d, Len(s) + 1)

\* [a, b, ...].join(d)
RECURSIVE Join(_, _)
Join(parts, d) ==
    IF Len(parts) = 0 THEN <<>>
    ELSE IF Len(parts) = 1 THEN parts[1]
    ELSE parts[1] \o <<d>> \o Join(Tail(parts), d)

None == <<>>
Some(x) == <<x>>

----------------------------------------------------------------------------
(* Package *)

\* Package::from(String): "repo/name" is cut at the first '/'
PackageFrom(s) ==
    IF IndexOf(s, "/") = 0
    THEN [repo |-> None, name |-> s]
    ELSE [repo |-> Some(SubSeq(s, 1, IndexOf(s, "/") - 1)),
          name |-> SubSeq(s, IndexOf(s, "/") + 1, Len(s))]

TOOLCHAIN == <<"toolchain">>
COMPONENT == <<"component">>

----------------------------------------------------------------------------
(* Results *)

Ok(v)      == [kind |-> "Ok", val |-> v, msg |-> ""]
Err(m)     == [kind |-> "Err", val |-> <<>>, msg |-> m]
Panic(m)   == [kind |-> "Panic", val |-> <<>>, msg |-> m]
NoResult   == [kind |-> "None", val |-> <<>>, msg |-> ""]

\* what Command::output()? followed by String::from_utf8(..)? can give
SpawnFailure == [kind |-> "spawn", lines |-> <<>>]
InvalidUtf8  == [kind |-> "utf8", lines |-> <<>>]
Text(ls)     == [kind |-> "text", lines |-> ls]

SeqsUpTo(S, n) == UNION {[1..k -> S] : k \in 0..n}

Outputs(pool) == {SpawnFailure, InvalidUtf8} \cup {Text(ls) : ls \in SeqsUpTo(pool, MaxLines)}

\* the same, no line printed twice
ListingOutputs(pool) ==
    {SpawnFailure, InvalidUtf8}
    \cup {Text(ls) : ls \in {x \in SeqsUpTo(pool, Cardinality(pool)) :
                                \A i, j \in 1..Len(x) : x[i] = x[j] => i = j}}

----------------------------------------------------------------------------
(* Rustup: the installed-state query *)

\* lines the tool may print for `toolchain list`
ToolchainLinePool ==
    { <<"stable">>,
      <<"nightly", "-", "2024", "-", "x86_64">> }

\* lines the tool may print for `component list --installed --toolchain t`
ComponentLinePool ==
    { <<"cargo", "-", "x86_64">>,
      <<"rust", "-", "std", "-", "x86_64">>,
      <<"rust", "-", "src">>,
      <<"rustdoc">> }

KnownComponents == { <<"cargo">>, <<"rustfmt">>, <<"clippy">>, <<"miri">>, <<"rls">>, <<"rustc">> }

\* one line of run_toolchain_command: the text before the first '-'
ToolchainOfLine(line) == SplitN(line, "-", 2)[1]

\* one line of run_component_command, for the toolchain it was asked about
MutComponentOfLine(toolchain, line) ==
    LET it == SplitN(line, "-", 3)
    IN  IF Len(it) < 2
        THEN Panic("No such component is managed by rustup")
        ELSE Ok(Join(<<toolchain, Join(<<it[1], it[2]>>, "-")>>, "/"))
ComponentOfLine(toolchain, line) ==
    LET it == SplitN(line, "-", 3)
        component == it[1]
    IN  IF component \in KnownComponents
        THEN Ok(Join(<<toolchain, component>>, "/"))
        ELSE IF Len(it) < 2
        THEN Panic("No such component is managed by rustup")
        ELSE Ok(Join(<<toolchain, Join(<<component, it[2]>>, "-")>>, "/"))

\* the inner loop of run_component_command over the lines of one output
RECURSIVE ComponentLines(_, _, _)
ComponentLines(toolchain, lines, acc) ==
    IF Len(lines) = 0 THEN Ok(acc)
    ELSE LET r == ComponentOfLine(toolchain, Head(lines))
         IN  IF r.kind = "Panic" THEN r
             ELSE ComponentLines(toolchain, Tail(lines), Append(acc, r.val))

\* run_toolchain_command on an output
RunToolchainCommand(out) ==
    IF out.kind # "text" THEN Err("Getting installed toolchains")
    ELSE Ok([i \in 1..Len(out.lines) |-> ToolchainOfLine(out.lines[i])])

ToolchainPackage(name) == PackageFrom(Join(<<TOOLCHAIN, name>>, "/"))
ComponentPackage(name) == PackageFrom(Join(<<COMPONENT, name>>, "/"))

\* the set get_all_installed_packages returns from the two vectors
InstalledSet(tcs, comps) ==
    {ToolchainPackage(n) : n \in Range(tcs)} \cup {ComponentPackage(n) : n \in Range(comps)}

QInit ==
    /\ qpc = "start"
    /\ toolchains_vec = <<>>
    /\ qi = 0
    /\ val = <<>>
    /\ seen = <<>>
    /\ tcLines = <<>>
    /\ qres = NoResult

\* lines 30-32: run_toolchain_command(["toolchain", "list"])
QueryToolchains ==
    /\ qpc = "start"
    /\ \E out \in ListingOutputs(ToolchainLinePool) :
         LET r == RunToolchainCommand(out)
         IN  /\ tcLines' = out.lines
             /\ IF r.kind = "Ok"
                THEN /\ toolchains_vec' = r.val
                     /\ qi' = 1
                     /\ qpc' = "components"
                     /\ qres' = qres
                ELSE /\ qres' = r
                     /\ qpc' = "done"
                     /\ UNCHANGED <<toolchains_vec, qi>>
    /\ UNCHANGED <<val, seen>>
    /\ UNCHANGED <<svars, ivars, rvars>>

\* lines 119-141: one turn of the loop over the toolchains
QueryComponents ==
    /\ qpc = "components"
    /\ qi <= Len(toolchains_vec)
    /\ \E out \in Outputs(ComponentLinePool) :
         LET toolchain == toolchains_vec[qi]
             r == ComponentLines(toolchain, out.lines, val)
         IN  /\ seen' = seen \o [k \in 1..Len(out.lines) |-> <<toolchain, out.lines[k]>>]
             /\ IF out.kind # "text"
                THEN /\ qres' = Err("Getting installed components")
                     /\ qpc' = "done"
                     /\ UNCHANGED <<val, qi>>
                ELSE IF r.kind = "Panic"
                THEN /\ qres' = r
                     /\ qpc' = "done"
                     /\ UNCHANGED <<val, qi>>
                ELSE /\ val' = r.val
                     /\ qi' = qi + 1
                     /\ UNCHANGED <<qpc, qres>>
    /\ UNCHANGED <<toolchains_vec, tcLines>>
    /\ UNCHANGED <<svars, ivars, rvars>>

\* lines 142, 45-49: collect both vectors into the returned set
QueryReturn ==
    /\ qpc = "components"
    /\ qi > Len(toolchains_vec)
    /\ qres' = Ok(InstalledSet(toolchains_vec, val))
    /\ qpc' = "done"
    /\ UNCHANGED <<toolchains_vec, qi, val, seen, tcLines>>
    /\ UNCHANGED <<svars, ivars, rvars>>

QNext == QueryToolchains \/ QueryComponents \/ QueryReturn

QIdle ==
    /\ qpc = "idle"
    /\ toolchains_vec = <<>>
    /\ qi = 0
    /\ val = <<>>
    /\ seen = <<>>
    /\ tcLines = <<>>
    /\ qres = NoResult

----------------------------------------------------------------------------
(* The rustup binary, as far as the backend talks to it *)

RECURSIVE SetToSeq(_)
SetToSeq(S) ==
    IF S = {} THEN <<>>
    ELSE LET x == CHOOSE y \in S : TRUE IN <<x>> \o SetToSeq(S \ {x})

\* stdout of `rustup toolchain list`: one line per toolchain, the id first
ToolchainListOutput(tcs, suffix) == Text(SetToSeq({id \o suffix : id \in tcs}))

\* stdout of `rustup component list --installed --toolchain t`; nothing is
\* printed on stdout for a toolchain the tool does not know
ComponentListOutput(comps, suffix, t) ==
    Text(SetToSeq({c[2] \o suffix : c \in {x \in comps : x[1] = t}}))

\* how a started command can end: exit status 0, exit status 1, not started
Outcomes == {"success", "exit1", "spawn"}

\* `component add` cannot succeed for a toolchain that is not installed
AddOutcomes(tcs, toolchain) ==
    IF toolchain \in tcs THEN Outcomes ELSE Outcomes \ {"success"}

----------------------------------------------------------------------------
(* Rustup: the whole query, on the output of the machine's tool *)

\* run_component_command: the loop over the toolchains
RECURSIVE RunComponentCommand(_, _, _, _)
RunComponentCommand(toolchains, comps, suffix, acc) ==
    IF Len(toolchains) = 0 THEN Ok(acc)
    ELSE LET t == Head(toolchains)
             r == ComponentLines(t, ComponentListOutput(comps, suffix, t).lines, acc)
         IN  IF r.kind = "Panic" THEN r
             ELSE RunComponentCommand(Tail(toolchains), comps, suffix, r.val)

GetAllInstalledPackages(tcs, comps, suffix) ==
    LET t == RunToolchainCommand(ToolchainListOutput(tcs, suffix))
        c == RunComponentCommand(t.val, comps, suffix, <<>>)
    IN  IF c.kind = "Panic" THEN c ELSE Ok(InstalledSet(t.val, c.val))

\* Backend::get_missing_packages_sorted, as a set: declared - installed
MissingPackages(decl, tcs, comps, suffix) ==
    decl \ GetAllInstalledPackages(tcs, comps, suffix).val

----------------------------------------------------------------------------
(* Rustup: install_packages and make_dependency *)

STABLE == <<"stable">>
NIGHTLY_DATED == <<"nightly", "-", "2024">>

\* what the user can declare in the rustup section of a group file
PackagePool ==
    { PackageFrom(<<"toolchain", "/">> \o STABLE),
      PackageFrom(<<"toolchain", "/">> \o NIGHTLY_DATED),
      PackageFrom(<<"component", "/">> \o STABLE \o <<"/", "clippy">>),
      PackageFrom(<<"component", "/">> \o STABLE \o <<"/", "rust", "-", "src">>),
      PackageFrom(<<"component", "/">> \o NIGHTLY_DATED \o <<"/", "cargo">>),
      PackageFrom(<<"component", "/", "clippy">>),
      PackageFrom(<<"cargo">>) }

\* machines the run can start on
SystemPool ==
    { [tcs |-> {}, comps |-> {}],
      [tcs |-> {STABLE}, comps |-> {}],
      [tcs |-> {STABLE}, comps |-> {<<STABLE, <<"cargo">>>>}] }

HostSuffixes == { <<>>, <<"-", "x86_64">> }

Perms(S) == {f \in [1..Cardinality(S) -> S] : Range(f) = S}

ExitStatus(n) == Ok(n)

\* Ok(status) with status.success()
IsSuccess(r) == r.kind = "Ok" /\ r.val = 0
IsExit(r, n) == r.kind = "Ok" /\ r.val = n

\* the anyhow::Result<ExitStatus> of cmd.status().context(..)
StatusResult(outcome, context) ==
    IF outcome = "success" THEN ExitStatus(0)
    ELSE IF outcome = "exit1" THEN ExitStatus(1)
    ELSE Err(context)

\* lines 78 and 97: !result.as_ref().is_ok_and(|exit| exit.success())
MutFailed(result) == result.kind # "Ok"
Failed(result) == ~IsSuccess(result)

\* the repo each of the two loops picks out of the batch (lines 73, 88)
MutPassRepo(n) == IF n = 1 THEN COMPONENT ELSE TOOLCHAIN
PassRepo(n) == IF n = 1 THEN TOOLCHAIN ELSE COMPONENT

\* line 58
MutMakeDependencyResult(packages) == ExitStatus(0)
MakeDependencyResult(packages) == Panic("Not supported by rustup")

IIdle ==
    /\ sysToolchains = {}
    /\ sysComponents = {}
    /\ hostSuffix = <<>>
    /\ op = "none"
    /\ declared = {}
    /\ batch = <<>>
    /\ pass = 0
    /\ ii = 0
    /\ cmds = <<>>
    /\ ires = NoResult
    /\ ipc = "idle"

\* the batch is the missing diff of the declared set, in any order
IInit ==
    /\ \E s \in SystemPool : sysToolchains = s.tcs /\ sysComponents = s.comps
    /\ hostSuffix \in HostSuffixes
    /\ op \in {"install", "make_dependency"}
    /\ declared \in SUBSET PackagePool
    /\ Cardinality(MissingPackages(declared, sysToolchains, sysComponents, hostSuffix)) <= MaxBatch
    /\ batch \in Perms(MissingPackages(declared, sysToolchains, sysComponents, hostSuffix))
    /\ pass = 1
    /\ ii = 1
    /\ cmds = <<>>
    /\ ires = IF op = "install" THEN ExitStatus(0) ELSE NoResult
    /\ ipc = "run"

Command(kind, idx, args, outcome) ==
    [kind |-> kind, idx |-> idx, args |-> args, outcome |-> outcome]

\* lines 68-82: one turn of the first loop
InstallToolchainStep ==
    /\ ipc = "run" /\ op = "install" /\ pass = 1 /\ ii <= Len(batch)
    /\ LET p == batch[ii] IN
       IF p.repo = None
       THEN /\ ires' = Panic("Not specified whether it is a toolchain or a component!")
            /\ ipc' = "done"
            /\ UNCHANGED <<ii, cmds, sysToolchains>>
       ELSE IF p.repo[1] = PassRepo(1)
       THEN \E o \in Outcomes :
              LET result == StatusResult(o, "Installing toolchain {p}") IN
              /\ cmds' = Append(cmds, Command("toolchain install", ii, <<p.name>>, o))
              /\ sysToolchains' = IF o = "success" THEN sysToolchains \cup {p.name}
                                  ELSE sysToolchains
              /\ ires' = result
              /\ IF Failed(result)
                 THEN ipc' = "done" /\ ii' = ii
                 ELSE ipc' = ipc /\ ii' = ii + 1
       ELSE /\ ii' = ii + 1
            /\ UNCHANGED <<ires, ipc, cmds, sysToolchains>>
    /\ UNCHANGED <<sysComponents, hostSuffix, op, declared, batch, pass>>
    /\ UNCHANGED <<qvars, rvars>>

\* line 83: the first loop is over, the second starts
InstallNextPass ==
    /\ ipc = "run" /\ op = "install" /\ pass = 1 /\ ii > Len(batch)
    /\ pass' = 2
    /\ ii' = 1
    /\ UNCHANGED <<svars, op, declared, batch, cmds, ires, ipc>>
    /\ UNCHANGED <<qvars, rvars>>

\* lines 83-101: one turn of the second loop
InstallComponentStep ==
    /\ ipc = "run" /\ op = "install" /\ pass = 2 /\ ii <= Len(batch)
    /\ LET p == batch[ii]
           iter == Split(p.name, "/")
       IN
       IF p.repo = None
       THEN /\ ires' = Panic("Not specified wether it is a component or a toolchain!")
            /\ ipc' = "done"
            /\ UNCHANGED <<ii, cmds, sysComponents>>
       ELSE IF p.repo[1] = PassRepo(2)
       THEN IF Len(iter) < 2
            THEN /\ ires' = Panic("Component not specified!")
                 /\ ipc' = "done"
                 /\ UNCHANGED <<ii, cmds, sysComponents>>
            ELSE \E o \in AddOutcomes(sysToolchains, iter[1]) :
                   LET result == StatusResult(o, "Installing component {p}") IN
                   /\ cmds' = Append(cmds, Command("component add", ii, <<iter[1], iter[2]>>, o))
                   /\ sysComponents' = IF o = "success"
                                       THEN sysComponents \cup {<<iter[1], iter[2]>>}
                                       ELSE sysComponents
                   /\ ires' = result
                   /\ IF Failed(result)
                      THEN ipc' = "done" /\ ii' = ii
                      ELSE ipc' = ipc /\ ii' = ii + 1
       ELSE /\ ii' = ii + 1
            /\ UNCHANGED <<ires, ipc, cmds, sysComponents>>
    /\ UNCHANGED <<sysToolchains, hostSuffix, op, declared, batch, pass>>
    /\ UNCHANGED <<qvars, rvars>>

\* line 102
InstallReturn ==
    /\ ipc = "run" /\ op = "install" /\ pass = 2 /\ ii > Len(batch)
    /\ ipc' = "done"
    /\ UNCHANGED <<svars, op, declared, batch, pass, ii, cmds, ires>>
    /\ UNCHANGED <<qvars, rvars>>

\* lines 57-59
MakeDependency ==
    /\ ipc = "run" /\ op = "make_dependency"
    /\ ires' = MakeDependencyResult(batch)
    /\ ipc' = "done"
    /\ UNCHANGED <<svars, op, declared, batch, pass, ii, cmds>>
    /\ UNCHANGED <<qvars, rvars>>

INext ==
    \/ InstallToolchainStep
    \/ InstallNextPass
    \/ InstallComponentStep
    \/ InstallReturn
    \/ MakeDependency

----------------------------------------------------------------------------
(* Pacdef: collect, report, confirm, execute *)

SYNC == "sync"
CLEAN == "clean"
UNMANAGED == "unmanaged"

\* Backends::iter(): the sections, in iteration order
Backends == <<"pacman", "python", "rustup">>

\* a backend as Backends::iter() yields it
DefaultBackend(section) == [section |-> section, binary |-> section, aur_rm_args |-> None]

Configs ==
    { [aur_helper |-> "paru", aur_rm_args |-> None],
      [aur_helper |-> "paru", aur_rm_args |-> Some(<<"--nosave">>)],
      [aur_helper |-> "yay",  aur_rm_args |-> Some(<<"--nosave">>)] }

\* Option::take(): the value, and None left behind
Take(o) == [value |-> o, left |-> None]

\* lines 94-104: the backend to use, and self.config afterwards
OverwriteValuesFromConfig(cfg, backend) ==
    IF backend.section = "pacman"
    THEN [backend |-> [section |-> "pacman",
                       binary |-> cfg.aur_helper,
                       aur_rm_args |-> Take(cfg.aur_rm_args).value],
          config |-> [cfg EXCEPT !.aur_rm_args = Take(cfg.aur_rm_args).left]]
    ELSE [backend |-> backend, config |-> cfg]

\* what get_missing_packages_sorted / get_unmanaged_packages_sorted can give;
\* the rustup query can also end the process (rustup.rs 134)
Diffs == { <<>>, <<"a">>, <<"a", "b">> }
Errors == { <<"top">>, <<"top", "cause">> }
QueryOutcomes(section) ==
    {[kind |-> "Ok", diff |-> d, chain |-> <<>>] : d \in Diffs}
    \cup {[kind |-> "Err", diff |-> <<>>, chain |-> c] : c \in Errors}
    \cup (IF section = "rustup"
          THEN {[kind |-> "Panic", diff |-> <<>>, chain |-> <<>>]}
          ELSE {})

BacktraceSettings == { None, Some("0"), Some("1"), Some("full") }

\* lines 330-343: the lines show_error prints
ShowError(var, section, chain) ==
    IF var # None
    THEN IF var[1] = "1" \/ var[1] = "full"
         THEN <<[kind |-> "header", section |-> section, text |-> ""]>>
                \o [k \in 1..Len(chain) |->
                        [kind |-> "cause", section |-> section, text |-> chain[k]]]
         ELSE <<>>
    ELSE <<[kind |-> "oneline", section |-> section, text |-> chain[1]]>>

\* lines 85-88 and 176-179: the match on the diff query's result
MutPushOrSkip(list, backend, r) ==
    IF r.kind = "Ok" /\ r.diff # <<>>
    THEN Append(list, [backend |-> backend, diff |-> r.diff])
    ELSE list
PushOrSkip(list, backend, r) ==
    IF r.kind = "Ok"
    THEN Append(list, [backend |-> backend, diff |-> r.diff])
    ELSE list

\* ToDoPerBackend::nothing_to_do_for_all_backends
NothingToDoForAllBackends(list) == \A k \in 1..Len(list) : list[k].diff = <<>>

\* lines 118-120 and 204-206: go on only if the user said yes
MutProceeds(answer) == TRUE
Proceeds(answer) == answer

RIdle ==
    /\ action = "none"
    /\ rust_backtrace = None
    /\ config = [aur_helper |-> "", aur_rm_args |-> None]
    /\ config0 = config
    /\ bidx = 0
    /\ outcomes = <<>>
    /\ todo = <<>>
    /\ stderr = <<>>
    /\ events = <<>>
    /\ rres = NoResult
    /\ rpc = "idle"

RInit ==
    /\ action \in {SYNC, CLEAN, UNMANAGED}
    /\ rust_backtrace \in BacktraceSettings
    /\ config \in Configs
    /\ config0 = config
    /\ bidx = 1
    /\ outcomes = <<>>
    /\ todo = <<>>
    /\ stderr = <<>>
    /\ events = <<>>
    /\ rres = NoResult
    /\ rpc = "collect"

\* lines 80-89 and 171-180: one turn of the loop over the backends
CollectBackend ==
    /\ rpc = "collect" /\ bidx <= Len(Backends)
    /\ LET ov == OverwriteValuesFromConfig(config, DefaultBackend(Backends[bidx]))
           backend == ov.backend
       IN  /\ config' = ov.config
           /\ \E r \in QueryOutcomes(backend.section) :
                /\ outcomes' = Append(outcomes, [section |-> backend.section,
                                                 kind |-> r.kind, diff |-> r.diff,
                                                 chain |-> r.chain])
                /\ IF r.kind = "Panic"
                   THEN /\ rpc' = "aborted"
                        /\ UNCHANGED <<todo, stderr, bidx>>
                   ELSE /\ todo' = PushOrSkip(todo, backend, r)
                        /\ stderr' = IF r.kind = "Err"
                                     THEN stderr \o ShowError(rust_backtrace, backend.section, r.chain)
                                     ELSE stderr
                        /\ bidx' = bidx + 1
                        /\ rpc' = rpc
    /\ UNCHANGED <<action, rust_backtrace, config0, events, rres>>
    /\ UNCHANGED <<qvars, svars, ivars>>

\* lines 91 and 181
CollectReturn ==
    /\ rpc = "collect" /\ bidx > Len(Backends)
    /\ rpc' = "collected"
    /\ UNCHANGED <<action, rust_backtrace, config, config0, bidx, outcomes, todo,
                   stderr, events, rres>>
    /\ UNCHANGED <<qvars, svars, ivars>>

\* lines 109-117, 195-203 (sync, clean) and 163-165 (unmanaged)
Report ==
    /\ rpc = "collected"
    /\ IF action = UNMANAGED
       THEN \E shown \in BOOLEAN :
              /\ events' = Append(events, "show")
              /\ rres' = IF shown THEN Ok(<<>>) ELSE Err("printing things to do")
              /\ rpc' = "done"
       ELSE IF NothingToDoForAllBackends(todo)
       THEN /\ events' = Append(events, "nothing to do")
            /\ rres' = Ok(<<>>)
            /\ rpc' = "done"
       ELSE \E shown \in BOOLEAN :
              /\ events' = events \o <<"would", "show">>
              /\ IF shown
                 THEN rres' = rres /\ rpc' = "confirm"
                 ELSE rres' = Err("printing things to do") /\ rpc' = "done"
    /\ UNCHANGED <<action, rust_backtrace, config, config0, bidx, outcomes, todo, stderr>>
    /\ UNCHANGED <<qvars, svars, ivars>>

\* lines 118-122 and 204-208: the prompt, then the install or removal
ConfirmAndExecute ==
    /\ rpc = "confirm"
    /\ \/ /\ events' = Append(events, "ask failed")
          /\ rres' = Err("confirmation")
       \/ \E answer \in BOOLEAN :
            IF Proceeds(answer)
            THEN /\ events' = events \o <<IF answer THEN "yes" ELSE "no", "execute">>
                 /\ \E done \in BOOLEAN :
                      rres' = IF done THEN Ok(<<>>) ELSE Err("execute")
            ELSE /\ events' = Append(events, "no")
                 /\ rres' = Ok(<<>>)
    /\ rpc' = "done"
    /\ UNCHANGED <<action, rust_backtrace, config, config0, bidx, outcomes, todo, stderr>>
    /\ UNCHANGED <<qvars, svars, ivars>>

RNext == CollectBackend \/ CollectReturn \/ Report \/ ConfirmAndExecute

----------------------------------------------------------------------------
(* Properties of Rustup::install_packages and make_dependency (SpecInstall) *)

IsPrefix(s, t) == Len(s) <= Len(t) /\ \A k \in 1..Len(s) : s[k] = t[k]

Indices(b) == [i \in 1..Len(b) |-> i]
IsToolchain(p) == p.repo = Some(TOOLCHAIN)
IsComponent(p) == p.repo = Some(COMPONENT)

\* the batch positions in the order the claim asks for
ToolchainsThenComponents(b) ==
    SelectSeq(Indices(b), LAMBDA i : IsToolchain(b[i]))
        \o SelectSeq(Indices(b), LAMBDA i : IsComponent(b[i]))

\* C1: every toolchain install command is issued before any component add
\* command, whatever the order of the batch, and within each pass the
\* packages are taken in batch order: the commands issued so far are always
\* a prefix of "the toolchains of the batch in batch order, then the
\* components of the batch in batch order".
C1_ToolchainsBeforeComponents ==
    op = "install" =>
        /\ IsPrefix([k \in 1..Len(cmds) |-> cmds[k].idx], ToolchainsThenComponents(batch))
        /\ \A k \in 1..Len(cmds) :
             /\ IsToolchain(batch[cmds[k].idx]) <=> cmds[k].kind = "toolchain install"
             /\ IsComponent(batch[cmds[k].idx]) <=> cmds[k].kind = "component add"
        /\ \A j, k \in 1..Len(cmds) :
             (cmds[j].kind = "component add" /\ cmds[k].kind = "toolchain install") => k < j

\* a batch that lists a component before a toolchain, both installed, the
\* toolchain first
C1_Witness ==
    /\ op = "install" /\ ipc = "done" /\ Len(cmds) >= 2
    /\ \E i, j \in 1..Len(batch) :
         /\ i < j /\ IsComponent(batch[i]) /\ IsToolchain(batch[j])
         /\ \E k, l \in 1..Len(cmds) : k < l /\ cmds[k].idx = j /\ cmds[l].idx = i

\* C2: install_packages is fail-fast: a command that is not started or exits
\* with a non-success status is the last command issued and its result is
\* what is returned; no package gets a second command; what the earlier
\* commands installed stays installed; a success status is returned only if
\* every command issued succeeded.
C2_FailFast ==
    op = "install" =>
        /\ \A k \in 1..(Len(cmds) - 1) : cmds[k].outcome = "success"
        /\ \A k \in 1..Len(cmds) :
             cmds[k].outcome # "success" =>
                /\ ipc = "done"
                /\ cmds[k].outcome = "exit1" => IsExit(ires, 1)
                /\ cmds[k].outcome = "spawn" => ires.kind = "Err"
        /\ \A j, k \in 1..Len(cmds) : cmds[j].idx = cmds[k].idx => j = k
        /\ \A k \in 1..Len(cmds) :
             cmds[k].outcome = "success" =>
                IF cmds[k].kind = "toolchain install"
                THEN cmds[k].args[1] \in sysToolchains
                ELSE <<cmds[k].args[1], cmds[k].args[2]>> \in sysComponents
        /\ (ipc = "done" /\ IsSuccess(ires)) =>
             \A k \in 1..Len(cmds) : cmds[k].outcome = "success"

\* a toolchain install succeeded, the next one failed, and a component of the
\* batch was never added
C2_Witness ==
    /\ op = "install" /\ ipc = "done" /\ Len(cmds) = 2
    /\ cmds[1].outcome = "success" /\ cmds[2].outcome = "exit1"
    /\ cmds[2].kind = "toolchain install"
    /\ \E i \in 1..Len(batch) : IsComponent(batch[i])
    /\ IsExit(ires, 1)

\* C7: round trip: once install_packages has returned a success status for
\* the missing diff, get_all_installed_packages returns a set that holds
\* every Package of that diff, and the missing diff is empty.
C7_RoundTrip ==
    (op = "install" /\ ipc = "done" /\ IsSuccess(ires)) =>
        /\ GetAllInstalledPackages(sysToolchains, sysComponents, hostSuffix).kind = "Ok"
        /\ Range(batch) \subseteq
             GetAllInstalledPackages(sysToolchains, sysComponents, hostSuffix).val
        /\ MissingPackages(declared, sysToolchains, sysComponents, hostSuffix) = {}

\* C9: make_dependency never returns a success status (it returns no status
\* at all) and starts no command, for every package list.
C9_MakeDependencyFails ==
    (op = "make_dependency" /\ ipc = "done") =>
        /\ ires.kind \in {"Err", "Panic"}
        /\ cmds = <<>>

C9_Witness ==
    op = "make_dependency" /\ ipc = "done" /\ batch = <<>> /\ ires.kind = "Panic"

----------------------------------------------------------------------------
(* Properties of Rustup::get_all_installed_packages (SpecQuery) *)

\* C6: every failure of the installed-state query is returned as an Error
\* value: the query ends with Ok or Err, never by aborting the run.
C6_QueryFailuresAreErrors ==
    qpc = "done" => qres.kind \in {"Ok", "Err"}

\* the component id the claim gives for a line
SegmentsOf(line) == Split(line, "-")
ComponentIdOf(line) ==
    IF SegmentsOf(line)[1] \in KnownComponents
    THEN SegmentsOf(line)[1]
    ELSE SegmentsOf(line)[1] \o <<"-">> \o SegmentsOf(line)[2]

\* C8: when the query returns a set, it is the union of one "toolchain"
\* Package per listed toolchain and, per line read for a toolchain, one
\* "component" Package named "<toolchain>/<component id>", the id being the
\* first segment if it is a known component and the first two segments
\* joined by '-' otherwise.
C8_ComponentParsing ==
    (qpc = "done" /\ qres.kind = "Ok") =>
        qres.val =
            {[repo |-> Some(TOOLCHAIN), name |-> SegmentsOf(tcLines[k])[1]] :
                k \in 1..Len(tcLines)}
            \cup
            {[repo |-> Some(COMPONENT),
              name |-> seen[k][1] \o <<"/">> \o ComponentIdOf(seen[k][2])] :
                k \in 1..Len(seen)}

\* a known component and a three-segment unknown one were both read
C8_Witness ==
    /\ qpc = "done" /\ qres.kind = "Ok"
    /\ \E j, k \in 1..Len(seen) :
         /\ seen[j][2] = <<"cargo", "-", "x86_64">>
         /\ seen[k][2] = <<"rust", "-", "std", "-", "x86_64">>
    /\ Cardinality(qres.val) >= 3

----------------------------------------------------------------------------
(* Properties of the run (Spec) *)

OkOutcomes == SelectSeq(outcomes, LAMBDA o : o.kind = "Ok")

\* C3: the to-do list always holds exactly one (backend, diff) entry per
\* backend evaluated so far whose query succeeded, empty diffs included, in
\* iteration order, and none for a backend whose query failed; once the
\* collect step has returned, every backend has been evaluated, in
\* iteration order.
C3_CollectIsolatesErrors ==
    /\ Len(todo) = Len(OkOutcomes)
    /\ \A k \in 1..Len(todo) :
         /\ todo[k].backend.section = OkOutcomes[k].section
         /\ todo[k].diff = OkOutcomes[k].diff
    /\ \A k \in 1..Len(outcomes) : outcomes[k].section = Backends[k]
    /\ rpc \in {"collected", "confirm", "done"} => Len(outcomes) = Len(Backends)

\* the first backend failed, the later ones were queried, one of them with an
\* empty diff, and both are in the list
C3_Witness ==
    /\ rpc = "collected"
    /\ outcomes[1].kind = "Err"
    /\ outcomes[2].kind = "Ok" /\ outcomes[2].diff = <<>>
    /\ outcomes[3].kind = "Ok" /\ outcomes[3].diff # <<>>
    /\ Len(todo) = 2

Position(s, e) == IF \E k \in 1..Len(s) : s[k] = e
                  THEN CHOOSE k \in 1..Len(s) : s[k] = e
                  ELSE 0

\* C4: in sync and clean the install/remove step runs only if some collected
\* diff is non-empty, after the report was shown and the prompt answered
\* yes; with only empty diffs the run prints "nothing to do" and returns Ok
\* without prompting; a declined prompt returns Ok with nothing executed.
C4_ConfirmBeforeExecute ==
    action \in {SYNC, CLEAN} =>
        /\ Position(events, "execute") > 0 =>
             /\ ~NothingToDoForAllBackends(todo)
             /\ 0 < Position(events, "show")
             /\ Position(events, "show") < Position(events, "yes")
             /\ Position(events, "yes") < Position(events, "execute")
        /\ (rpc \in {"confirm", "done"} /\ NothingToDoForAllBackends(todo)) =>
             /\ events = <<"nothing to do">>
             /\ rres = Ok(<<>>)
        /\ Position(events, "no") > 0 =>
             /\ rres = Ok(<<>>)
             /\ Position(events, "execute") = 0
             /\ rpc = "done"

\* a run that was declined, and so executed nothing
C4_Witness ==
    /\ action = SYNC /\ rpc = "done"
    /\ events = <<"would", "show", "no">>
    /\ ~NothingToDoForAllBackends(todo)

IsOn(var) == var # None /\ var[1] \in {"1", "full"}

\* C5: every backend skipped because its diff query failed has a warning
\* naming its section on stderr, for every state of RUST_BACKTRACE: the
\* cause chain when it is set to "1" or "full", the one-line warning with
\* the top-level message otherwise.
C5_SkippedBackendWarned ==
    \A k \in 1..Len(outcomes) :
        outcomes[k].kind = "Err" =>
            IF IsOn(rust_backtrace)
            THEN \A c \in 1..Len(outcomes[k].chain) :
                    \E l \in 1..Len(stderr) :
                        stderr[l] = [kind |-> "cause", section |-> outcomes[k].section,
                                     text |-> outcomes[k].chain[c]]
            ELSE \E l \in 1..Len(stderr) :
                    stderr[l] = [kind |-> "oneline", section |-> outcomes[k].section,
                                 text |-> outcomes[k].chain[1]]

\* C10: the collect step leaves the configuration as it was loaded, and the
\* pacman backend it builds carries the configured binary and removal
\* arguments.
C10_ConfigUnchanged ==
    /\ config = config0
    /\ \A k \in 1..Len(todo) :
         todo[k].backend.section = "pacman" =>
            /\ todo[k].backend.binary = config0.aur_helper
            /\ todo[k].backend.aur_rm_args = config0.aur_rm_args


----------------------------------------------------------------------------
(* Specifications *)

\* one call of Rustup::get_all_installed_packages
InitQuery == QInit /\ IIdle /\ RIdle
SpecQuery == InitQuery /\ [][QNext]_vars

\* one call of Rustup::install_packages or Rustup::make_dependency
InitInstall == IInit /\ QIdle /\ RIdle
SpecInstall == InitInstall /\ [][INext]_vars

\* one run of pacdef sync, clean or unmanaged
Init == RInit /\ QIdle /\ IIdle
Next == RNext
Spec == Init /\ [][Next]_vars

====
